---- MODULE Spec2Model ----
(***************************************************************************)
(* The staged ETL pipeline engine (src/pipeline/pipeline.py), the Intercom *)
(* conversation pipeline built on it (src/intercom/conversation/*.py), the *)
(* retrying API client (src/intercom/api.py) and the bulk loader           *)
(* (src/database/database_operations.py).                                  *)
(*                                                                         *)
(* Spec     one call of Pipeline.execute(), for an abstract pipeline whose *)
(*          steps may return or raise anything.                            *)
(* SpecConv one call of IntercomConversationPipeline.execute() against a   *)
(*          database and a remote API whose conversations change, and the  *)
(*          calls that follow it on the same database.                     *)
(* SpecApi  the retry loops of the three API functions, one remote         *)
(*          request per step, for every retry budget up to MaxRetries.     *)
(* SpecDb   the two load primitives called on any table and row-set.       *)
(*                                                                         *)
(* Exceptions are the subclasses of Exception: Pipeline.execute catches    *)
(* `Exception`, and every condition the steps of this repository raise is  *)
(* one.                                                                    *)
(***************************************************************************)
EXTENDS Integers, Sequences, FiniteSets, TLC

\* ------------------------------------------------------------------------
\* Bounds of the model
\* ------------------------------------------------------------------------
MaxSteps == 2
MaxPayloads == 2
\* conversations on the remote, updates made to them, and the largest retry
\* budget a call is given
NumConvs == 2
MaxUpdates == 2
MaxRetries == 2
\* results per page of the remote's search endpoint
PerPage == 1
\* calls of execute() made one after the other on the same database
MaxRuns == 2
\* parts of a conversation in the row-sets given to the loader
MaxParts == 3

\* ------------------------------------------------------------------------
\* Values
\* ------------------------------------------------------------------------
\* No exception.
NoExc == [cls |-> "none", phase |-> "none", step |-> 0]

\* pipeline.exceptions: the two control signals, subclasses of Exception
\* carrying a msg.
StopPipelineException == "StopPipelineException"
StopPayloadException == "StopPayloadException"

\* An exception object: its class and the place that raised it (which makes
\* two exceptions of the same class distinguishable).
Exc(cls, phase, step) == [cls |-> cls, phase |-> phase, step |-> step]

\* The abstract step of the four step base classes: execute() is supplied
\* by the pipeline's author and may return or raise any Exception.
AbstractStep == "Step"
AbstractRaises == {"Exception", StopPipelineException, StopPayloadException}

VARIABLES
    pre_execution_steps,   \* Pipeline.pre_execution_steps
    pipeline_steps,        \* Pipeline.pipeline_steps
    post_execution_steps,  \* Pipeline.post_execution_steps
    error_handling_steps,  \* Pipeline.error_handling_steps
    attrs,                 \* the attributes assigned on the Pipeline object
    payloads,              \* Pipeline.payloads: the queue of work units
    pc,                    \* the method of Pipeline that is running
    i,                     \* index of the next step in the running loop
    e,                     \* the exception bound by `except Exception as e`
    raised,                \* the exception execute() raised to its caller
    n_post,                \* calls of run_post_execution_steps so far
    n_error,               \* calls of run_error_handling so far
    processed,             \* the payloads deleted from the queue, in order
    units,                 \* the queue as run_all_payloads first found it
    log,                   \* every step executed so far and how it ended
    remote,                \* the remote's conversations, by id
    now,                   \* the updates made on the remote so far
    runs,                  \* one record per call of execute() so far
    api,                   \* the running call of an intercom.api function
    committed,             \* the destination tables as durably committed
    txn,                   \* the tables as the open transaction sees them
    committed0,            \* the committed tables when execute() was called
    pk_count,              \* primary-key constraints on conversation_parts
    loader                 \* direct calls of the two load primitives so far

engine == <<pc, i, e, raised, n_post, n_error>>
steplists == <<pre_execution_steps, pipeline_steps, post_execution_steps,
               error_handling_steps>>
history == <<processed, units, log>>
world == <<remote, now, runs>>
db == <<committed, txn, committed0, pk_count, loader>>
vars == <<steplists, attrs, payloads, engine, history, world, api, db>>
pipeline == <<steplists, attrs, payloads, engine, history>>

\* ------------------------------------------------------------------------
\* The remote API
\* ------------------------------------------------------------------------
ConvIds == 1..NumConvs

\* Python's None where a timestamp is expected.
None == 0 - 1

\* What a conversation holds besides its timestamps: which of the optional
\* objects are present and which conversation parts the API returns.
Optional == {"conversation_contacts", "conversation_first_contact_replies",
             "conversation_ratings", "conversation_sla_applied",
             "conversation_sources", "conversation_statistics",
             "conversation_tags", "conversation_teammates"}
Shapes == {[objs |-> {}, parts |-> {}],
           [objs |-> {"conversation_tags"}, parts |-> {1}],
           [objs |-> Optional, parts |-> {1, 2}]}

\* A conversation that does not exist (yet) has updated_at 0.
NoConv == [updated_at |-> 0, shape |-> [objs |-> {}, parts |-> {}]]

Min(a, b) == IF a <= b THEN a ELSE b

RECURSIVE Sorted(_)
Sorted(S) ==
    IF S = {} THEN <<>>
    ELSE LET m == CHOOSE x \in S : \A y \in S : x <= y
         IN <<m>> \o Sorted(S \ {m})

RECURSIVE MaxOf(_)
MaxOf(S) == CHOOSE x \in S : \A y \in S : y <= x

\* The search endpoint: the conversations matching the query's filter on
\* updated_at ("> start", and "<= end" unless end is None), in the remote's
\* order, and one page of them.  A page number below 1 is served as page 1.
Search(start, end) ==
    Sorted({c \in ConvIds : /\ remote[c].updated_at > start
                            /\ end # None => remote[c].updated_at <= end})
TotalPages(n) == (n + PerPage - 1) \div PerPage
Page(list, p) ==
    LET q == IF p < 1 THEN 1 ELSE p
    IN SubSeq(list, (q - 1) * PerPage + 1, Min(q * PerPage, Len(list)))

\* The frame of a call of one of the three API functions: its arguments,
\* its locals, counters of the requests sent and the backoffs slept, the
\* failures since the last "200 OK" (streak), the pages fetched and the
\* result set behind every search response received.
Frame(fn, pos, start, end, cid, R) ==
    [fn |-> fn, pos |-> pos, retries |-> R,
     start_timestamp |-> start, end_timestamp |-> end, conversation_id |-> cid,
     failed_attempts |-> 0, total_pages |-> 0, current_page |-> 0,
     conversation_ids |-> <<>>, max_updated_at |-> None, details |-> NoConv,
     requests |-> 0, sleeps |-> 0, streak |-> 0, fetched |-> <<>>,
     seen |-> <<>>]
NoCall == Frame("none", "none", 0, 0, 0, 0)

\* `while failed_attempts <= retries`
MayAttempt_Strict(failed_attempts, retries) == failed_attempts < retries
MayAttempt_Always(failed_attempts, retries) == TRUE
MayAttempt(failed_attempts, retries) == failed_attempts <= retries

\* requests.post / requests.get was called.
Sent(f) == [f EXCEPT !.requests = @ + 1]

\* `if response.reason == "OK"`: the response is taken.
Ok_ResetsFailedAttempts(f) == [f EXCEPT !.streak = 0, !.failed_attempts = 0]
Ok(f) == [f EXCEPT !.streak = 0]

\* The response was not "200 OK": count it, back off, and test the loop
\* condition; the while's else clause raises APIErrorException.
Failed(f) ==
    LET g == [f EXCEPT !.failed_attempts = @ + 1, !.sleeps = @ + 1,
                       !.streak = @ + 1]
    IN IF MayAttempt(g.failed_attempts, g.retries) THEN g
       ELSE [g EXCEPT !.pos = "raised"]

\* The set of the conversations a search matches.
ResultSet(start, end) ==
    LET list == Search(start, end) IN {list[k] : k \in 1..Len(list)}

\* max(updated_at_values) over the first page, or None.
MaxFirstPage(start) ==
    LET first == Page(Search(start, None), 1)
        values == {remote[first[k]].updated_at : k \in 1..Len(first)}
    IN IF values = {} THEN None ELSE MaxOf(values)

\* One iteration of the loop of get_conversation_max_updated_timestamp.
get_conversation_max_updated_timestamp ==
    /\ api.fn = "get_conversation_max_updated_timestamp"
    /\ api.pos = "request"
    /\ \E ok \in BOOLEAN :
         api' = IF ok
                THEN [Ok(Sent(api)) EXCEPT
                        !.max_updated_at = MaxFirstPage(api.start_timestamp),
                        !.pos = "returned"]
                ELSE Failed(Sent(api))
    /\ UNCHANGED <<pipeline, world, db>>

\* One iteration of the loop of get_conversation_details.
get_conversation_details ==
    /\ api.fn = "get_conversation_details"
    /\ api.pos = "request"
    /\ \E ok \in BOOLEAN :
         api' = IF ok
                THEN [Ok(Sent(api)) EXCEPT
                        !.details = remote[api.conversation_id],
                        !.pos = "returned"]
                ELSE Failed(Sent(api))
    /\ UNCHANGED <<pipeline, world, db>>

\* get_conversation_ids_last_updated_between_timestamps, first loop: one
\* request of page 1 for total_pages.
get_conversation_ids_total_pages ==
    /\ api.fn = "get_conversation_ids_last_updated_between_timestamps"
    /\ api.pos = "total_pages"
    /\ \E ok \in BOOLEAN :
         api' = IF ok
                THEN LET n == TotalPages(Len(Search(api.start_timestamp,
                                                    api.end_timestamp)))
                     IN [Ok(Sent(api)) EXCEPT
                            !.total_pages = n,
                            !.current_page = n,
                            !.seen = Append(@, ResultSet(api.start_timestamp,
                                                         api.end_timestamp)),
                            !.pos = "page"]
                ELSE Failed(Sent(api))
    /\ UNCHANGED <<pipeline, world, db>>

\* `if current_page > 1: current_page -= 1 / else: break`
NextPage_StopsAtSecond(f) ==
    IF f.current_page > 2
    THEN [f EXCEPT !.current_page = @ - 1]
    ELSE [f EXCEPT !.pos = "returned"]
NextPage(f) ==
    IF f.current_page > 1
    THEN [f EXCEPT !.current_page = @ - 1]
    ELSE [f EXCEPT !.pos = "returned"]

\* get_conversation_ids_last_updated_between_timestamps, second loop: one
\* request of page current_page.
get_conversation_ids_page ==
    /\ api.fn = "get_conversation_ids_last_updated_between_timestamps"
    /\ api.pos = "page"
    /\ \E ok \in BOOLEAN :
         api' = IF ok
                THEN LET new_conversation_ids ==
                             Page(Search(api.start_timestamp,
                                         api.end_timestamp), api.current_page)
                     IN NextPage([Ok(Sent(api)) EXCEPT
                            !.conversation_ids = @ \o new_conversation_ids,
                            !.fetched = Append(@, api.current_page),
                            !.seen = Append(@, ResultSet(api.start_timestamp,
                                                         api.end_timestamp))])
                ELSE Failed(Sent(api))
    /\ UNCHANGED <<pipeline, world, db>>

\* The remote is observed by the requests of a running API call and, once
\* the run has committed, by whoever compares it with the destination, so
\* its changes are taken when a request or the commit is about to happen.
Observed ==
    \/ api.pos \in {"request", "total_pages", "page"}
    \/ pc = "run_post_execution_steps" /\ i = 1 /\ post_execution_steps # <<>>

\* The latest second in which a conversation was updated.
LastSecond == MaxOf({remote[c].updated_at : c \in ConvIds})

\* A conversation is created or updated on the remote, in the second of
\* the latest update or in a later one.
RemoteUpdate ==
    /\ Observed
    /\ now < MaxUpdates
    /\ \E c \in ConvIds, t \in {LastSecond, LastSecond + 1}, sh \in Shapes :
         /\ t >= 1
         /\ remote' = [remote EXCEPT ![c] = [updated_at |-> t, shape |-> sh]]
    /\ now' = now + 1
    /\ UNCHANGED <<pipeline, api, db, runs>>

\* A caller invokes one of the API functions with a retry budget.
Call ==
    /\ api = NoCall
    /\ pc = "idle"
    /\ \E R \in 0..MaxRetries, start \in 0..MaxUpdates :
         \/ api' = Frame("get_conversation_max_updated_timestamp", "request",
                         start, None, 0, R)
         \/ \E c \in ConvIds :
              api' = Frame("get_conversation_details", "request", 0, None, c, R)
         \/ \E end \in start..MaxUpdates :
              api' = Frame("get_conversation_ids_last_updated_between_timestamps",
                           "total_pages", start, end, 0, R)
    /\ UNCHANGED <<pipeline, world, db>>

\* ------------------------------------------------------------------------
\* The destination database
\* ------------------------------------------------------------------------
\* The tables LoadToDatabase deletes from and reloads, in its order, and
\* the table it merges into.
ReplaceTables ==
    <<"conversations", "conversation_contacts",
      "conversation_first_contact_replies", "conversation_ratings",
      "conversation_sla_applied", "conversation_sources",
      "conversation_statistics", "conversation_tags", "conversation_teammates">>
Tables == {ReplaceTables[k] : k \in 1..Len(ReplaceTables)} \cup {"conversation_parts"}

\* `tmp_table_name = 'tmp_' + table_name`
tmp_table_name(table_name) == "tmp_" \o table_name

\* The temporary table of the session, which merge_dataframe_into_table
\* creates `if not exists ... on commit drop` for conversation_parts.  It
\* has no rows while it does not exist.
TemporaryTables == {tmp_table_name("conversation_parts")}

\* A database state: the set of rows of every table.
EmptyDb == [t \in Tables \cup TemporaryTables |-> {}]

\* `select coalesce(max(updated_at), 0) from intercom.conversations`
Watermark(d) ==
    IF d["conversations"] = {} THEN 0
    ELSE MaxOf({r.updated_at : r \in d["conversations"]})

\* `delete from <table> where id = %s` (conversations) or
\* `where conversation_id = %s` (the other tables).
DeleteConversation_Nothing(d, table, c) == d
DeleteConversation(d, table, c) ==
    [d EXCEPT ![table] =
        IF table = "conversations" THEN {r \in @ : r.id # c}
        ELSE {r \in @ : r.conversation_id # c}]

\* `copy <table> (<columns>) from STDIN` with the rows of the dataframe.
CopyInto_Replace(rows, df) == df
CopyInto(rows, df) == rows \cup df

\* load_dataframe_to_table: nothing for an empty dataframe, else a copy
\* that appends its rows.
load_dataframe_to_table(d, table, df) ==
    IF df = {} THEN d ELSE [d EXCEPT ![table] = CopyInto(@, df)]

\* get_primary_key_name goes to its raise statement unless the table has
\* exactly one primary-key constraint.
MissingPrimaryKey(count) == count # 1

\* `raise MissingPrimaryKeyException`: the class is instantiated without
\* arguments, and its __init__ requires msg, so what is raised is the
\* TypeError of the failed instantiation.
MissingPrimaryKeyException == "MissingPrimaryKeyException"
RaiseMissingPrimaryKeyException == "TypeError"

\* The primary key of conversation_parts.
PartKey(r) == <<r.conversation_id, r.id>>

\* `merge into <table> t using tmp_<table> s on (<key columns equal>) when
\* matched then update set <non-key columns> when not matched then insert`:
\* rows matching a staged row on the primary key take the staged row's
\* values, the other staged rows are inserted, and no row is deleted.
MergeInto_Replace(rows, staged) == staged
MergeInto_DropsMatched(rows, staged) ==
    {r \in rows : \A s \in staged : PartKey(s) # PartKey(r)}
    \cup {s \in staged : \A r \in rows : PartKey(s) # PartKey(r)}
MergeInto(rows, staged) ==
    {r \in rows : \A s \in staged : PartKey(s) # PartKey(r)} \cup staged

\* The merge statement fails when two staged rows have the same key: both
\* match one row, or both are inserted under the one primary key.
DistinctKeys(df) == \A r, s \in df : PartKey(r) = PartKey(s) => r = s

\* `truncate table tmp_<table>`
TruncateTable_Nothing(d, table) == d
TruncateTable(d, table) == [d EXCEPT ![table] = {}]

\* The rows the merge statement reads: those of the temporary table after
\* the dataframe was loaded into it.
Staged(d, table, df) ==
    load_dataframe_to_table(d, tmp_table_name(table), df)[tmp_table_name(table)]

\* merge_dataframe_into_table on conversation_parts, when it returns: the
\* dataframe is loaded into the temporary table, the temporary table is
\* merged into the table and then truncated.
merge_dataframe_into_table(d, table, df) ==
    IF df = {} THEN d
    ELSE LET tmp == tmp_table_name(table)
             loaded == load_dataframe_to_table(d, tmp, df)
             merged == [loaded EXCEPT ![table] = MergeInto(@, loaded[tmp])]
         IN TruncateTable(merged, tmp)

\* ------------------------------------------------------------------------
\* The load primitives called directly
\* ------------------------------------------------------------------------
\* Rows of one conversation for conversation_tags and conversation_parts.
Values == {"old", "new"}
TagRows == [conversation_id : {1}, v : Values]
PartRows == [conversation_id : {1}, id : 1..MaxParts, v : Values]

\* No call made; aborted: a statement has failed in the transaction, and
\* the database refuses every statement until the transaction ends.
NoLoad == [aborted |-> FALSE, done |-> <<>>]

\* load_dataframe_to_table(schema_name, table_name, df, cur): the tables
\* after the call, the statements it executed and how it ended.
LoadCall(d, table, df, aborted) ==
    IF df = {}
    THEN [tables |-> d, statements |-> <<>>, out |-> "return"]
    ELSE IF aborted
    THEN [tables |-> d, statements |-> <<"copy">>, out |-> "DatabaseError"]
    ELSE [tables |-> load_dataframe_to_table(d, table, df),
          statements |-> <<"copy">>, out |-> "return"]

\* merge_dataframe_into_table(schema_name, table_name, df, cur) likewise:
\* the early exit, get_primary_key_name, get_key_columns, the temporary
\* table, the load into it, the merge and the truncate.  A merge statement
\* that fails aborts the transaction, and nothing done in it is kept.
MergeCall(d, table, df, count, aborted) ==
    IF df = {}
    THEN [tables |-> d, statements |-> <<>>, out |-> "return"]
    ELSE IF aborted
    THEN [tables |-> d, statements |-> <<"select primary key">>,
          out |-> "DatabaseError"]
    ELSE IF MissingPrimaryKey(count)
    THEN [tables |-> d, statements |-> <<"select primary key">>,
          out |-> RaiseMissingPrimaryKeyException]
    ELSE IF ~DistinctKeys(Staged(d, table, df))
    THEN [tables |-> d,
          statements |-> <<"select primary key", "select key columns",
                           "create temporary table", "copy", "merge">>,
          out |-> "DatabaseError"]
    ELSE [tables |-> merge_dataframe_into_table(d, table, df),
          statements |-> <<"select primary key", "select key columns",
                           "create temporary table", "copy", "merge",
                           "truncate">>,
          out |-> "return"]

\* The call with result r is recorded and the transaction carries on.
Called(fn, table, df, r) ==
    /\ txn' = r.tables
    /\ loader' = [aborted |-> loader.aborted \/ r.out = "DatabaseError",
                  done |-> Append(loader.done,
                                  [fn |-> fn, table_name |-> table, df |-> df,
                                   before |-> txn[table],
                                   after |-> r.tables[table],
                                   statements |-> r.statements,
                                   out |-> r.out])]
    /\ UNCHANGED <<pipeline, world, api, committed, committed0, pk_count>>

\* A first call of load_dataframe_to_table in an open transaction.
CallLoad ==
    /\ loader.done = <<>>
    /\ \E df \in SUBSET TagRows :
         Called("load_dataframe_to_table", "conversation_tags", df,
                LoadCall(txn, "conversation_tags", df, loader.aborted))

\* A first call of merge_dataframe_into_table in an open transaction.
CallMerge ==
    /\ loader.done = <<>>
    /\ \E df \in SUBSET PartRows :
         Called("merge_dataframe_into_table", "conversation_parts", df,
                MergeCall(txn, "conversation_parts", df, pk_count,
                          loader.aborted))

\* After a merge, a merge of one row into the same table in the same
\* transaction.
CallMergeNext ==
    /\ Len(loader.done) = 1
    /\ loader.done[1].fn = "merge_dataframe_into_table"
    /\ \E r \in PartRows :
         Called("merge_dataframe_into_table", loader.done[1].table_name, {r},
                MergeCall(txn, loader.done[1].table_name, {r}, pk_count,
                          loader.aborted))

\* The same call again, with the same row-set, in the same transaction.
CallAgain ==
    /\ Len(loader.done) = 1
    /\ LET c == loader.done[1]
       IN Called(c.fn, c.table_name, c.df,
                 IF c.fn = "load_dataframe_to_table"
                 THEN LoadCall(txn, c.table_name, c.df, loader.aborted)
                 ELSE MergeCall(txn, c.table_name, c.df, pk_count,
                                loader.aborted))

\* ------------------------------------------------------------------------
\* Payloads
\* ------------------------------------------------------------------------
NoData == [id |-> 0, updated_at |-> 0, shape |-> [objs |-> {}, parts |-> {}]]
NoRows == [t \in Tables |-> {}]

\* Payload(): the attributes GetPayloads assigns, and those the pipeline
\* steps assign later (api_data, the dataframes), not yet set.  ran lists
\* the pipeline steps started on the payload.
NewPayload(c, start, end) ==
    [conversation_id |-> c, start_timestamp |-> start, end_timestamp |-> end,
     api_data |-> NoData, rows |-> NoRows, ran |-> <<>>]

\* ------------------------------------------------------------------------
\* Pipeline: control flow of execute()
\* ------------------------------------------------------------------------
\* The step list the running method iterates over.
StepList ==
    CASE pc = "run_pre_execution_steps" -> pre_execution_steps
      [] pc = "run_payload" -> pipeline_steps
      [] pc = "run_post_execution_steps" -> post_execution_steps
      [] pc = "run_error_handling" -> error_handling_steps
      [] OTHER -> <<>>

\* The class of the step about to be instantiated and executed.
CurStep == IF i \in 1..Len(StepList) THEN StepList[i] ELSE "none"

\* `except StopPayloadException` in run_payload: encloses one pipeline step.
CatchesStopPayload_Never(phase, cls) == FALSE
CatchesStopPayload_Any(phase, cls) == phase = "run_payload"
CatchesStopPayload(phase, cls) ==
    phase = "run_payload" /\ cls = StopPayloadException

\* `except StopPipelineException` in execute: encloses
\* run_pre_execution_steps and run_all_payloads only.
CatchesStopPipeline_PayloadsOnly(phase, cls) ==
    /\ phase \in {"run_all_payloads", "run_payload"}
    /\ cls = StopPipelineException
CatchesStopPipeline_PreOnly(phase, cls) ==
    phase = "run_pre_execution_steps" /\ cls = StopPipelineException
CatchesStopPipeline(phase, cls) ==
    /\ phase \in {"run_pre_execution_steps", "run_all_payloads", "run_payload"}
    /\ cls = StopPipelineException

\* `except Exception` in execute: encloses everything but run_error_handling.
CatchesException_NotPost(phase, cls) ==
    phase \notin {"run_error_handling", "run_post_execution_steps"}
CatchesException(phase, cls) == phase # "run_error_handling"

\* Entering run_post_execution_steps.
GotoPost ==
    /\ pc' = "run_post_execution_steps"
    /\ i' = 1
    /\ n_post' = n_post + 1
    /\ UNCHANGED <<e, raised, n_error>>

\* `except Exception as e: self.run_error_handling()`.
GotoError(x) ==
    /\ pc' = "run_error_handling"
    /\ i' = 1
    /\ e' = x
    /\ n_error' = n_error + 1
    /\ UNCHANGED <<raised, n_post>>

\* The exception leaves execute().
Propagate(x) ==
    /\ pc' = "raised"
    /\ raised' = x
    /\ UNCHANGED <<i, e, n_post, n_error>>

\* Exception x is raised in the running method: the innermost enclosing
\* handler takes it.
Throw(x) ==
    IF CatchesStopPayload(pc, x.cls)
    THEN /\ pc' = "payload_done"
         /\ UNCHANGED <<i, e, raised, n_post, n_error>>
    ELSE IF CatchesStopPipeline(pc, x.cls) THEN GotoPost
    ELSE IF CatchesException(pc, x.cls) THEN GotoError(x)
    ELSE Propagate(x)

\* The running step returned: the loop goes on to the next step.
Return ==
    /\ i' = i + 1
    /\ UNCHANGED <<pc, e, raised, n_post, n_error>>

\* A step ended with outcome x (NoExc: it returned).
Outcome(x) == IF x = NoExc THEN Return ELSE Throw(x)

\* The head payload with the running pipeline step recorded as started.
Started(p) == [p EXCEPT !.ran = Append(@, i)]

\* The log entry of the running step ending with outcome x; unit is the
\* position in the unit list of the payload it ran on (0: not a pipeline
\* step).
Entry(x) ==
    [phase |-> pc, step |-> i,
     unit |-> IF pc = "run_payload" THEN Len(processed) + 1 ELSE 0,
     out |-> IF x = NoExc THEN "return" ELSE x.cls]

\* The running step ended with outcome x: it is logged and the engine
\* takes over.
Ends(x) == Outcome(x) /\ log' = Append(log, Entry(x))

\* The record of a run: the window GetPayloads resolved (None: not
\* resolved), whether conn.commit() returned, and the remote updates made
\* before execute() was called.
NewRun == [start |-> None, end |-> None, committed |-> FALSE, updates |-> now]
ThisRun(r) == [runs EXCEPT ![Len(runs)] = r]

\* execute() is called.
Execute ==
    /\ pc = "idle"
    /\ pc' = "run_pre_execution_steps"
    /\ i' = 1
    /\ runs' = Append(runs, NewRun)
    /\ UNCHANGED <<steplists, attrs, payloads, e, raised, n_post, n_error, history>>
    /\ UNCHANGED <<remote, now, api, db>>

\* run_pre_execution_steps: the loop is exhausted, run_all_payloads is next.
EndPreExecutionSteps ==
    /\ pc = "run_pre_execution_steps"
    /\ i > Len(pre_execution_steps)
    /\ pc' = "run_all_payloads"
    /\ units' = IF "payloads" \in attrs THEN payloads ELSE <<>>
    /\ UNCHANGED <<steplists, attrs, payloads, i, e, raised, n_post, n_error,
                   processed, log>>
    /\ UNCHANGED <<world, api, db>>

\* run_all_payloads: `if len(self.payloads) == 0: return` and the head of
\* `while len(self.payloads) > 0`.
RunAllPayloads ==
    /\ pc = "run_all_payloads"
    /\ IF "payloads" \notin attrs
       THEN Throw(Exc("AttributeError", pc, 0))
       ELSE IF Len(payloads) = 0
       THEN GotoPost
       ELSE /\ pc' = "run_payload"
            /\ i' = 1
            /\ UNCHANGED <<e, raised, n_post, n_error>>
    /\ UNCHANGED <<steplists, attrs, payloads, history>>
    /\ UNCHANGED <<world, api, db>>

\* `del self.payloads[0]`
Rest_KeepsProcessed(queue) == Tail(queue) \o <<Head(queue)>>
Rest(queue) == Tail(queue)

\* run_payload returned (all steps done, or break): the payload is deleted.
EndPayload ==
    /\ \/ pc = "run_payload" /\ i > Len(pipeline_steps)
       \/ pc = "payload_done"
    /\ processed' = Append(processed, Head(payloads))
    /\ payloads' = Rest(payloads)
    /\ pc' = "run_all_payloads"
    /\ UNCHANGED <<steplists, attrs, i, e, raised, n_post, n_error, units, log>>
    /\ UNCHANGED <<world, api, db>>

\* run_post_execution_steps: the loop is exhausted, execute() returns.
EndPostExecutionSteps ==
    /\ pc = "run_post_execution_steps"
    /\ i > Len(post_execution_steps)
    /\ pc' = "returned"
    /\ UNCHANGED <<steplists, attrs, payloads, i, e, raised, n_post, n_error, history>>
    /\ UNCHANGED <<world, api, db>>

\* run_error_handling: the loop is exhausted, `raise e`.
EndErrorHandling ==
    /\ pc = "run_error_handling"
    /\ i > Len(error_handling_steps)
    /\ Propagate(e)
    /\ UNCHANGED <<steplists, attrs, payloads, history>>
    /\ UNCHANGED <<world, api, db>>

\* ------------------------------------------------------------------------
\* An abstract step
\* ------------------------------------------------------------------------
Step_execute ==
    /\ CurStep = AbstractStep
    /\ \E x \in {NoExc} \cup {Exc(c, pc, i) : c \in AbstractRaises} :
         Ends(x)
    /\ payloads' = IF pc = "run_payload"
                   THEN <<Started(Head(payloads))>> \o Tail(payloads)
                   ELSE payloads
    /\ UNCHANGED <<steplists, attrs, processed, units>>
    /\ UNCHANGED <<world, api, db>>

\* ------------------------------------------------------------------------
\* The conversation pipeline: pre-execution steps
\* ------------------------------------------------------------------------
\* `retries: int = 5`, the budget every caller in the pipeline uses
DefaultRetries == 5

\* The head payload replaced by p.
WithHead(p) == <<p>> \o Tail(payloads)

\* GetDatabaseConnection.execute: get_db_connection() may fail, and so may
\* conn.cursor(); the transaction starts from the committed tables.
GetDatabaseConnection_execute ==
    /\ CurStep = "GetDatabaseConnection"
    /\ \E r \in {"connected", "connect fails", "cursor fails"} :
         /\ attrs' = CASE r = "connected" -> attrs \cup {"conn", "cur"}
                       [] r = "cursor fails" -> attrs \cup {"conn"}
                       [] OTHER -> attrs
         /\ txn' = IF r = "connect fails" THEN txn ELSE committed
         /\ Ends(IF r = "connected" THEN NoExc
                 ELSE Exc("OperationalError", pc, i))
    /\ UNCHANGED <<steplists, payloads, processed, units, world, api,
                   committed, committed0, pk_count, loader>>

\* GetPayloads.execute up to its first API call: the watermark is read and
\* get_conversation_max_updated_timestamp is called.
GetPayloads_execute ==
    /\ CurStep = "GetPayloads"
    /\ api = NoCall
    /\ IF "cur" \notin attrs
       THEN Ends(Exc("AttributeError", pc, i)) /\ UNCHANGED api
       ELSE \/ Ends(Exc("DatabaseError", pc, i)) /\ UNCHANGED api
            \/ /\ api' = Frame("get_conversation_max_updated_timestamp",
                               "request", Watermark(txn), None, 0,
                               DefaultRetries)
               /\ UNCHANGED <<engine, log>>
    /\ UNCHANGED <<steplists, attrs, payloads, processed, units, world, db>>

\* GetPayloads.execute from the return of the first API call: no
\* end_timestamp stops the pipeline, else the identifiers are enumerated.
GetPayloads_end_timestamp ==
    /\ CurStep = "GetPayloads"
    /\ api.fn = "get_conversation_max_updated_timestamp"
    /\ api.pos \in {"returned", "raised"}
    /\ IF api.pos = "raised"
       THEN Ends(Exc("APIErrorException", pc, i)) /\ api' = NoCall
       ELSE IF api.max_updated_at = None
       THEN Ends(Exc(StopPipelineException, pc, i)) /\ api' = NoCall
       ELSE /\ api' = Frame("get_conversation_ids_last_updated_between_timestamps",
                            "total_pages", api.start_timestamp,
                            api.max_updated_at, 0, DefaultRetries)
            /\ UNCHANGED <<engine, log>>
    /\ runs' = IF api.pos = "raised" THEN runs
               ELSE ThisRun([runs[Len(runs)] EXCEPT
                                !.start = api.start_timestamp,
                                !.end = api.max_updated_at])
    /\ UNCHANGED <<steplists, attrs, payloads, processed, units, remote, now, db>>

\* GetPayloads.execute from the return of the second API call: one payload
\* per identifier, in the order returned.
GetPayloads_payloads ==
    /\ CurStep = "GetPayloads"
    /\ api.fn = "get_conversation_ids_last_updated_between_timestamps"
    /\ api.pos \in {"returned", "raised"}
    /\ api' = NoCall
    /\ IF api.pos = "raised"
       THEN Ends(Exc("APIErrorException", pc, i)) /\ UNCHANGED <<attrs, payloads>>
       ELSE /\ payloads' = [k \in 1..Len(api.conversation_ids) |->
                              NewPayload(api.conversation_ids[k],
                                         api.start_timestamp,
                                         api.end_timestamp)]
            /\ attrs' = attrs \cup {"payloads"}
            /\ Ends(NoExc)
    /\ UNCHANGED <<steplists, processed, units, world, db>>

\* ------------------------------------------------------------------------
\* The conversation pipeline: pipeline steps
\* ------------------------------------------------------------------------
\* RetrieveApiData.execute: get_conversation_details is called.
RetrieveApiData_execute ==
    /\ CurStep = "RetrieveApiData"
    /\ api = NoCall
    /\ api' = Frame("get_conversation_details", "request", 0, None,
                    Head(payloads).conversation_id, DefaultRetries)
    /\ payloads' = WithHead(Started(Head(payloads)))
    /\ UNCHANGED <<steplists, attrs, engine, history, world, db>>

\* RetrieveApiData.execute from the return of the call.
RetrieveApiData_return ==
    /\ CurStep = "RetrieveApiData"
    /\ api.fn = "get_conversation_details"
    /\ api.pos \in {"returned", "raised"}
    /\ api' = NoCall
    /\ IF api.pos = "raised"
       THEN Ends(Exc("APIErrorException", pc, i)) /\ UNCHANGED payloads
       ELSE /\ payloads' = WithHead([Head(payloads) EXCEPT !.api_data =
                              [id |-> api.conversation_id,
                               updated_at |-> api.details.updated_at,
                               shape |-> api.details.shape]])
            /\ Ends(NoExc)
    /\ UNCHANGED <<steplists, attrs, processed, units, world, db>>

\* `min(payload.api_data['updated_at'], payload.end_timestamp)`
LimitedUpdatedAt_Unlimited(updated_at, end_timestamp) == updated_at
LimitedUpdatedAt(updated_at, end_timestamp) == Min(updated_at, end_timestamp)

\* The dataframes ParseApiData builds: one conversations row with
\* updated_at limited to end_timestamp, one row per optional object that is
\* not None, and one row per conversation part.
ParsedRows(p) ==
    [t \in Tables |->
        IF t = "conversations"
        THEN {[id |-> p.api_data.id,
               updated_at |-> LimitedUpdatedAt(p.api_data.updated_at,
                                               p.end_timestamp)]}
        ELSE IF t = "conversation_parts"
        THEN {[conversation_id |-> p.conversation_id, id |-> part,
               v |-> p.api_data.updated_at] : part \in p.api_data.shape.parts}
        ELSE IF t \in p.api_data.shape.objs
        THEN {[conversation_id |-> p.conversation_id,
               v |-> p.api_data.updated_at]}
        ELSE {}]

\* ParseApiData.execute: a field missing from the API data raises KeyError.
ParseApiData_execute ==
    /\ CurStep = "ParseApiData"
    /\ \/ /\ payloads' = WithHead([Started(Head(payloads)) EXCEPT
                                     !.rows = ParsedRows(Head(payloads))])
          /\ Ends(NoExc)
       \/ /\ payloads' = WithHead(Started(Head(payloads)))
          /\ Ends(Exc("KeyError", pc, i))
    /\ UNCHANGED <<steplists, attrs, processed, units, world, api, db>>

\* The statements of LoadToDatabase.execute in order: delete and load per
\* replaced table, then the merge into conversation_parts.
LoadStatements ==
    [k \in 1..(2 * Len(ReplaceTables) + 1) |->
        IF k > 2 * Len(ReplaceTables)
        THEN [op |-> "merge", table |-> "conversation_parts"]
        ELSE IF k % 2 = 1
        THEN [op |-> "delete", table |-> ReplaceTables[(k + 1) \div 2]]
        ELSE [op |-> "load", table |-> ReplaceTables[k \div 2]]]

\* The tables after one statement of LoadToDatabase for payload p.
RunStatement(d, st, p) ==
    CASE st.op = "delete" -> DeleteConversation(d, st.table, p.conversation_id)
      [] st.op = "load" -> load_dataframe_to_table(d, st.table, p.rows[st.table])
      [] st.op = "merge" -> merge_dataframe_into_table(d, st.table, p.rows[st.table])

\* The tables after the first n statements of LoadToDatabase for payload p.
RECURSIVE AfterStatements(_, _, _)
AfterStatements(d, p, n) ==
    IF n = 0 THEN d
    ELSE RunStatement(AfterStatements(d, p, n - 1), LoadStatements[n], p)

\* A load or merge of an empty dataframe returns before touching the
\* database.
Issued(st, p) == st.op = "delete" \/ p.rows[st.table] # {}

\* The merge raises in get_primary_key_name, before it moves any data.
RaisesMissingPrimaryKey(st, p) ==
    st.op = "merge" /\ Issued(st, p) /\ MissingPrimaryKey(pk_count)

\* LoadToDatabase.execute: all the statements run, or the first n do and
\* statement n + 1 raises.
LoadToDatabase_execute ==
    /\ CurStep = "LoadToDatabase"
    /\ LET p == Head(payloads)
           last == Len(LoadStatements)
       IN \E n \in 0..last :
            /\ \A k \in 1..n : ~RaisesMissingPrimaryKey(LoadStatements[k], p)
            /\ n < last => Issued(LoadStatements[n + 1], p)
            /\ txn' = AfterStatements(txn, p, n)
            /\ Ends(IF n = last THEN NoExc
                    ELSE IF RaisesMissingPrimaryKey(LoadStatements[n + 1], p)
                    THEN Exc(RaiseMissingPrimaryKeyException, pc, i)
                    ELSE Exc("DatabaseError", pc, i))
    /\ payloads' = WithHead(Started(Head(payloads)))
    /\ UNCHANGED <<steplists, attrs, processed, units, world, api,
                   committed, committed0, pk_count, loader>>

\* ------------------------------------------------------------------------
\* The conversation pipeline: post-execution and error-handling steps
\* ------------------------------------------------------------------------
\* `on commit drop`: the temporary tables are gone after a commit.
OnCommitDrop(d) == [t \in DOMAIN d |-> IF t \in TemporaryTables THEN {} ELSE d[t]]

\* CommitTransaction.execute: pipeline.conn.commit()
CommitTransaction_execute ==
    /\ CurStep = "CommitTransaction"
    /\ IF "conn" \notin attrs
       THEN Ends(Exc("AttributeError", pc, i)) /\ UNCHANGED <<committed, txn, runs>>
       ELSE \/ /\ committed' = OnCommitDrop(txn)
               /\ txn' = OnCommitDrop(txn)
               /\ runs' = ThisRun([runs[Len(runs)] EXCEPT !.committed = TRUE])
               /\ Ends(NoExc)
            \/ /\ Ends(Exc("OperationalError", pc, i))
               /\ UNCHANGED <<committed, txn, runs>>
    /\ UNCHANGED <<steplists, attrs, payloads, processed, units, remote, now,
                   api, committed0, pk_count, loader>>

\* RollbackTransaction.execute: pipeline.conn.rollback().  A rollback that
\* fails has lost the connection, and the server discards the transaction.
RollbackTransaction_execute ==
    /\ CurStep = "RollbackTransaction"
    /\ IF "conn" \notin attrs
       THEN Ends(Exc("AttributeError", pc, i)) /\ UNCHANGED txn
       ELSE /\ txn' = committed
            /\ \/ Ends(NoExc)
               \/ Ends(Exc("OperationalError", pc, i))
    /\ UNCHANGED <<steplists, attrs, payloads, processed, units, world, api,
                   committed, committed0, pk_count, loader>>

\* ------------------------------------------------------------------------
\* Initial states
\* ------------------------------------------------------------------------
StepsUpTo(n) == UNION {[1..k -> {AbstractStep}] : k \in 0..n}

\* A work unit of the abstract pipeline.
Unit(k) == NewPayload(k, 0, 0)

InitEngine ==
    /\ pc = "idle"
    /\ i = 0
    /\ e = NoExc
    /\ raised = NoExc
    /\ n_post = 0
    /\ n_error = 0
    /\ processed = <<>>
    /\ units = <<>>
    /\ log = <<>>

InitAbstract ==
    /\ pre_execution_steps \in StepsUpTo(MaxSteps)
    /\ pipeline_steps \in StepsUpTo(MaxSteps)
    /\ post_execution_steps \in StepsUpTo(MaxSteps)
    /\ error_handling_steps \in StepsUpTo(MaxSteps)
    /\ attrs = {"payloads"}
    /\ \E n \in 0..MaxPayloads : payloads = [k \in 1..n |-> Unit(k)]

InitWorld ==
    /\ remote = [c \in ConvIds |-> NoConv]
    /\ now = 0
    /\ runs = <<>>
    /\ api = NoCall
    /\ committed = EmptyDb
    /\ txn = EmptyDb
    /\ committed0 = EmptyDb
    /\ pk_count = 1
    /\ loader = NoLoad

Init == InitEngine /\ InitAbstract /\ InitWorld

Next ==
    \/ Execute
    \/ EndPreExecutionSteps
    \/ RunAllPayloads
    \/ EndPayload
    \/ EndPostExecutionSteps
    \/ EndErrorHandling
    \/ Step_execute

Spec == Init /\ [][Next]_vars

\* ------------------------------------------------------------------------
\* One call of execute() of the conversation pipeline
\* ------------------------------------------------------------------------
\* intercom/conversation/pipeline.py, on a database that is empty, with
\* no conversation on the remote yet or with every conversation there
\* (complete, last updated in second 1), or that holds conversation 1 as
\* synchronized at second 1.
InitConv ==
    /\ InitEngine
    /\ pre_execution_steps = <<"GetDatabaseConnection", "GetPayloads">>
    /\ pipeline_steps = <<"RetrieveApiData", "ParseApiData", "LoadToDatabase">>
    /\ post_execution_steps = <<"CommitTransaction">>
    /\ error_handling_steps = <<"RollbackTransaction">>
    /\ attrs = {}
    /\ payloads = <<>>
    /\ api = NoCall
    /\ runs = <<>>
    /\ pk_count \in 0..2
    /\ loader = NoLoad
    /\ \/ /\ remote = [c \in ConvIds |-> NoConv]
          /\ now = 0
          /\ committed = EmptyDb
       \/ /\ remote = [c \in ConvIds |->
                         [updated_at |-> 1,
                          shape |-> [objs |-> Optional, parts |-> {1, 2}]]]
          /\ now = 0
          /\ committed = EmptyDb
       \/ /\ remote = [c \in ConvIds |->
                         IF c = 1 THEN [updated_at |-> 1, shape |-> NoConv.shape]
                         ELSE NoConv]
          /\ now = 1
          /\ committed = [EmptyDb EXCEPT !["conversations"] =
                                          {[id |-> 1, updated_at |-> 1]}]
    /\ txn = committed
    /\ committed0 = committed

\* execute() has ended and the pipeline is started again, later, on the
\* same database: a new Pipeline object and a new connection, the
\* transaction of the run before discarded unless it was committed.
NextRun ==
    /\ pc \in {"returned", "raised"}
    /\ Len(runs) < MaxRuns
    /\ pc' = "idle"
    /\ i' = 0
    /\ e' = NoExc
    /\ raised' = NoExc
    /\ n_post' = 0
    /\ n_error' = 0
    /\ processed' = <<>>
    /\ units' = <<>>
    /\ log' = <<>>
    /\ attrs' = {}
    /\ payloads' = <<>>
    /\ api' = NoCall
    /\ txn' = committed
    /\ committed0' = committed
    /\ UNCHANGED <<steplists, world, committed, pk_count, loader>>

NextConv ==
    \/ Execute
    \/ NextRun
    \/ EndPreExecutionSteps
    \/ RunAllPayloads
    \/ EndPayload
    \/ EndPostExecutionSteps
    \/ EndErrorHandling
    \/ GetDatabaseConnection_execute
    \/ GetPayloads_execute
    \/ GetPayloads_end_timestamp
    \/ GetPayloads_payloads
    \/ RetrieveApiData_execute
    \/ RetrieveApiData_return
    \/ ParseApiData_execute
    \/ LoadToDatabase_execute
    \/ CommitTransaction_execute
    \/ RollbackTransaction_execute
    \/ get_conversation_max_updated_timestamp
    \/ get_conversation_details
    \/ get_conversation_ids_total_pages
    \/ get_conversation_ids_page
    \/ RemoteUpdate

SpecConv == InitConv /\ [][NextConv]_vars

\* ------------------------------------------------------------------------
\* The API functions alone, called with any retry budget
\* ------------------------------------------------------------------------
\* The remote holds any of the conversations, last updated in second 1.
InitApi ==
    /\ InitEngine
    /\ remote \in [ConvIds -> {NoConv, [NoConv EXCEPT !.updated_at = 1]}]
    /\ now = 0
    /\ runs = <<>>
    /\ api = NoCall
    /\ committed = EmptyDb
    /\ txn = EmptyDb
    /\ committed0 = EmptyDb
    /\ pk_count = 1
    /\ loader = NoLoad
    /\ attrs = {}
    /\ payloads = <<>>
    /\ pre_execution_steps = <<>>
    /\ pipeline_steps = <<>>
    /\ post_execution_steps = <<>>
    /\ error_handling_steps = <<>>

NextApi ==
    \/ Call
    \/ get_conversation_max_updated_timestamp
    \/ get_conversation_details
    \/ get_conversation_ids_total_pages
    \/ get_conversation_ids_page
    \/ RemoteUpdate

SpecApi == InitApi /\ [][NextApi]_vars

\* The functions are synchronous Python: a call that has been entered keeps
\* executing its loop, and requests.post / requests.get and time.sleep
\* return, so an iteration that can be taken is taken.
SpecApiFair ==
    /\ SpecApi
    /\ WF_vars(get_conversation_max_updated_timestamp)
    /\ WF_vars(get_conversation_details)
    /\ WF_vars(get_conversation_ids_total_pages)
    /\ WF_vars(get_conversation_ids_page)

\* ------------------------------------------------------------------------
\* The load primitives alone, on any rows of one conversation
\* ------------------------------------------------------------------------
InitDb ==
    /\ InitEngine
    /\ remote = [c \in ConvIds |-> NoConv]
    /\ now = 0
    /\ runs = <<>>
    /\ api = NoCall
    /\ attrs = {}
    /\ payloads = <<>>
    /\ pre_execution_steps = <<>>
    /\ pipeline_steps = <<>>
    /\ post_execution_steps = <<>>
    /\ error_handling_steps = <<>>
    /\ committed = EmptyDb
    /\ committed0 = EmptyDb
    /\ \E tags \in SUBSET TagRows :
         \E parts \in {df \in SUBSET PartRows : DistinctKeys(df)} :
            txn = [EmptyDb EXCEPT !["conversation_tags"] = tags,
                                  !["conversation_parts"] = parts]
    /\ pk_count \in 0..2
    /\ loader = NoLoad

NextDb ==
    \/ CallLoad
    \/ CallMerge
    \/ CallAgain
    \/ CallMergeNext

SpecDb == InitDb /\ [][NextDb]_vars

\* ------------------------------------------------------------------------
\* A pipeline whose pipeline steps write and may stop the pipeline
\* ------------------------------------------------------------------------
\* The steps of the conversation pipeline with one more pipeline step, a
\* PipelineStep subclass that returns or raises anything, at any position
\* among the three; executed once on an empty database with every
\* conversation on the remote.
WithStepAt(k) ==
    [j \in 1..4 |-> IF j < k THEN <<"RetrieveApiData", "ParseApiData",
                                     "LoadToDatabase">>[j]
                    ELSE IF j = k THEN AbstractStep
                    ELSE <<"RetrieveApiData", "ParseApiData",
                           "LoadToDatabase">>[j - 1]]

InitStop ==
    /\ InitEngine
    /\ pre_execution_steps = <<"GetDatabaseConnection", "GetPayloads">>
    /\ \E k \in 1..4 : pipeline_steps = WithStepAt(k)
    /\ post_execution_steps = <<"CommitTransaction">>
    /\ error_handling_steps = <<"RollbackTransaction">>
    /\ attrs = {}
    /\ payloads = <<>>
    /\ api = NoCall
    /\ runs = <<>>
    /\ pk_count = 1
    /\ loader = NoLoad
    /\ \E sh \in Shapes :
         remote = [c \in ConvIds |-> [updated_at |-> 1, shape |-> sh]]
    /\ now = 0
    /\ committed = EmptyDb
    /\ txn = committed
    /\ committed0 = committed

NextStop ==
    \/ Execute
    \/ EndPreExecutionSteps
    \/ RunAllPayloads
    \/ EndPayload
    \/ EndPostExecutionSteps
    \/ EndErrorHandling
    \/ Step_execute
    \/ GetDatabaseConnection_execute
    \/ GetPayloads_execute
    \/ GetPayloads_end_timestamp
    \/ GetPayloads_payloads
    \/ RetrieveApiData_execute
    \/ RetrieveApiData_return
    \/ ParseApiData_execute
    \/ LoadToDatabase_execute
    \/ CommitTransaction_execute
    \/ RollbackTransaction_execute
    \/ get_conversation_max_updated_timestamp
    \/ get_conversation_details
    \/ get_conversation_ids_total_pages
    \/ get_conversation_ids_page

SpecStop == InitStop /\ [][NextStop]_vars

\* ------------------------------------------------------------------------
\* Properties of Pipeline.execute (Spec)
\* ------------------------------------------------------------------------
Ended == pc \in {"returned", "raised"}
Entries == 1..Len(log)
PayloadPhases == {"run_all_payloads", "run_payload", "payload_done"}

\* The exception a log entry stands for.
ExcOf(en) == Exc(en.out, en.phase, en.step)

\* The entry is a step that raised something other than the two signals.
RaisedError(en) ==
    en.out \notin {"return", StopPipelineException, StopPayloadException}

\* The entry is a step that raised what its scope does not handle as a
\* signal: anything but the skip-remaining signal in a pipeline step and
\* the early-stop signal in a pre-execution or pipeline step.
Unhandled(en) ==
    /\ en.out # "return"
    /\ ~(en.out = StopPayloadException /\ en.phase = "run_payload")
    /\ ~(/\ en.out = StopPipelineException
         /\ en.phase \in {"run_pre_execution_steps", "run_payload"})

NoUnhandled == \A k \in Entries : ~Unhandled(log[k])
EntriesOf(phase) == {k \in Entries : log[k].phase = phase}
ErrorStepsRaised ==
    {k \in EntriesOf("run_error_handling") : log[k].out # "return"}
Ids(queue) == [k \in 1..Len(queue) |-> queue[k].conversation_id]

\* C1 as stated: whenever a pre-execution, pipeline or post-execution step
\* raised an exception other than the signals, execute() ends by raising
\* that same exception after running error handling once.
C1_Original ==
    \A k \in Entries :
        (Ended /\ log[k].phase # "run_error_handling" /\ RaisedError(log[k]))
        => (pc = "raised" /\ n_error = 1 /\ raised = ExcOf(log[k]))

\* C1 amended: such an exception is bound as e and run_error_handling is
\* entered exactly once; execute() ends by raising: the same exception when
\* every error-handling step returned (all of them ran), and otherwise the
\* exception of the error-handling step that raised, the steps after it
\* not run.
C1_ErrorHandlingThenReraise ==
    /\ n_error <= 1
    /\ pc = "returned" => n_error = 0
    /\ \A k \in Entries :
        (log[k].phase # "run_error_handling" /\ RaisedError(log[k]))
        => /\ n_error = 1
           /\ e = ExcOf(log[k])
           /\ pc \in {"run_error_handling", "raised"}
           /\ \A j \in Entries : j > k => log[j].phase = "run_error_handling"
           /\ pc = "raised" =>
                IF ErrorStepsRaised = {}
                THEN /\ raised = e
                     /\ Cardinality(EntriesOf("run_error_handling"))
                          = Len(error_handling_steps)
                ELSE /\ ErrorStepsRaised = {Len(log)}
                     /\ raised = ExcOf(log[Len(log)])

C1_Witness ==
    /\ pc = "raised"
    /\ raised = e
    /\ e.cls = "Exception"
    /\ e.phase = "run_payload"
    /\ Cardinality(EntriesOf("run_error_handling")) = 2

\* C5: once a pre-execution or pipeline step raised StopPipelineException,
\* no further pre-execution or pipeline step runs, the units not yet
\* deleted stay in the queue, run_post_execution_steps is entered exactly
\* once and, unless a post-execution step raises, run_error_handling is
\* not entered and execute() returns after all post-execution steps; and
\* a run without an unhandled exception enters post-execution at most once.
C5_EarlyStopRunsPostOnce ==
    /\ n_post <= 1
    /\ (Ended /\ NoUnhandled) => (pc = "returned" /\ n_post = 1 /\ n_error = 0)
    /\ \A k \in Entries :
        (/\ log[k].out = StopPipelineException
         /\ log[k].phase \in {"run_pre_execution_steps", "run_payload"})
        => /\ n_post = 1
           /\ \A j \in Entries :
                j > k => log[j].phase \in {"run_post_execution_steps",
                                           "run_error_handling"}
           /\ Len(processed) = (IF log[k].unit = 0 THEN 0 ELSE log[k].unit - 1)
           /\ log[k].unit > 0 => Len(payloads) = Len(units) - Len(processed)
           /\ NoUnhandled =>
                /\ n_error = 0
                /\ pc \in {"run_post_execution_steps", "returned"}
                /\ pc = "returned" =>
                     Cardinality(EntriesOf("run_post_execution_steps"))
                       = Len(post_execution_steps)

C5_Witness ==
    /\ pc = "returned"
    /\ \E k \in Entries : /\ log[k].out = StopPipelineException
                          /\ log[k].phase = "run_payload"
                          /\ log[k].unit = 1
    /\ Len(payloads) = 2
    /\ Cardinality(EntriesOf("run_post_execution_steps")) = 2

\* C6: while run_all_payloads runs, the units already deleted followed by
\* the queue are the unit list in its order, only the head of the queue has
\* had a step applied, and the steps logged go through the units in order
\* and through the steps of a unit in order; when it returned normally the
\* queue is empty and every unit was deleted once; for an empty unit list
\* no pipeline step runs and nothing is raised.
C6_OneAtATimeInOrder ==
    /\ pc \in PayloadPhases => Ids(units) = Ids(processed) \o Ids(payloads)
    /\ \A k \in 2..Len(payloads) : payloads[k].ran = <<>>
    /\ \A j, k \in EntriesOf("run_payload") :
         j < k => \/ log[j].unit < log[k].unit
                  \/ log[j].unit = log[k].unit /\ log[j].step < log[k].step
    /\ \A k \in 1..Len(processed) :
         \E m \in 0..Len(pipeline_steps) : processed[k].ran = [j \in 1..m |-> j]
    /\ (/\ pc \in {"run_post_execution_steps", "returned"}
        /\ \A k \in Entries : log[k].out # StopPipelineException)
       => (payloads = <<>> /\ Ids(processed) = Ids(units))
    /\ (units = <<>> /\ pc \notin {"idle", "run_pre_execution_steps"})
       => /\ EntriesOf("run_payload") = {}
          /\ NoUnhandled => n_error = 0

C6_Witness ==
    /\ pc = "returned"
    /\ Len(units) = 2
    /\ Ids(processed) = <<1, 2>>
    /\ payloads = <<>>
    /\ \A k \in 1..2 : processed[k].ran = <<1, 2>>

\* C8: when a pipeline step raised StopPayloadException on a unit, no later
\* step runs on that unit, the unit is deleted before anything else
\* happens, the next step executed (if any unit is left) is the first step
\* of the next unit, and the signal neither triggers error handling nor
\* ends the run: a run in which nothing else is raised processes every
\* unit and returns.
C8_SkipRemaining ==
    /\ NoUnhandled => n_error = 0
    /\ (NoUnhandled /\ \A k \in Entries : log[k].out # StopPipelineException)
       => /\ n_post = 0 => pc \in PayloadPhases \cup {"idle", "run_pre_execution_steps"}
          /\ n_post = 1 => (payloads = <<>> /\ Len(processed) = Len(units))
    /\ \A k \in Entries :
        (log[k].out = StopPayloadException /\ log[k].phase = "run_payload")
        => /\ \A j \in Entries :
                (log[j].phase = "run_payload" /\ log[j].unit = log[k].unit)
                => log[j].step <= log[k].step
           /\ Len(processed) >= log[k].unit \/ (pc = "payload_done" /\ k = Len(log))
           /\ Len(processed) >= log[k].unit =>
                processed[log[k].unit].ran = [j \in 1..log[k].step |-> j]
           /\ (k < Len(log) /\ log[k].unit < Len(units))
              => /\ log[k + 1].phase = "run_payload"
                 /\ log[k + 1].unit = log[k].unit + 1
                 /\ log[k + 1].step = 1

C8_Witness ==
    /\ pc = "returned"
    /\ n_error = 0
    /\ Len(processed) = 2
    /\ processed[1].ran = <<1>>
    /\ processed[2].ran = <<1, 2>>
    /\ \E k \in Entries : /\ log[k].out = StopPayloadException
                          /\ log[k].unit = 1

\* C9 as stated: a pipeline step raising anything but StopPayloadException
\* means post-execution does not run and error handling does.
C9_Original ==
    \A k \in Entries :
        (/\ log[k].phase = "run_payload"
         /\ log[k].out \notin {"return", StopPayloadException})
        => (n_post = 0 /\ n_error = 1)

\* C9 amended: a pipeline step raising anything but StopPayloadException
\* and StopPipelineException on unit i means that no further pipeline step
\* runs (on unit i or on a later unit), units i and later stay in the
\* queue with no step applied to the later ones, post-execution is not
\* run, and error handling is entered once.
C9_NoPerUnitIsolation ==
    \A k \in Entries :
        (log[k].phase = "run_payload" /\ RaisedError(log[k]))
        => /\ \A j \in Entries : j > k => log[j].phase = "run_error_handling"
           /\ n_post = 0
           /\ n_error = 1
           /\ Len(processed) = log[k].unit - 1
           /\ Len(payloads) = Len(units) - Len(processed)
           /\ \A j \in 2..Len(payloads) : payloads[j].ran = <<>>
           /\ pc \in {"run_error_handling", "raised"}

C9_Witness ==
    /\ pc = "raised"
    /\ e.phase = "run_payload"
    /\ e.cls = "Exception"
    /\ Len(processed) = 1
    /\ Len(payloads) = 1
    /\ Cardinality(EntriesOf("run_error_handling")) >= 1
\* ------------------------------------------------------------------------
\* Properties of the conversation pipeline (SpecConv)
\* ------------------------------------------------------------------------
\* conn.commit() returned; conn.rollback() was called; it returned.
Commits == {k \in EntriesOf("run_post_execution_steps") : log[k].out = "return"}
RollbackCalls ==
    {k \in EntriesOf("run_error_handling") : log[k].out # "AttributeError"}
Rollbacks == {k \in EntriesOf("run_error_handling") : log[k].out = "return"}

\* C2, for the failure it names: when get_db_connection() failed in the
\* first pre-execution step, execute() raises that failure to its caller.
C2_ConnectFailureSurfaces ==
    (/\ pc = "raised"
     /\ "conn" \notin attrs
     /\ log[1].phase = "run_pre_execution_steps"
     /\ log[1].step = 1
     /\ log[1].out = "OperationalError")
    => raised = ExcOf(log[1])

\* C3 as stated: every run performs exactly one of commit and rollback.
C3_Original == Ended => Cardinality(Commits) + Cardinality(Rollbacks) = 1

\* C3 amended: a run in which the connection was opened ends with exactly
\* one of a successful commit and a call of rollback, never both; the
\* commit only when no step raised, the rollback only when a condition
\* reached the top-level handler; a run that could not open the connection
\* performs neither, its rollback step raising AttributeError.
C3_ClosedOnce ==
    /\ Cardinality(Commits) + Cardinality(RollbackCalls) <= 1
    /\ (Ended /\ "conn" \in attrs)
       => Cardinality(Commits) + Cardinality(RollbackCalls) = 1
    /\ (Ended /\ "conn" \notin attrs)
       => (Commits = {} /\ RollbackCalls = {} /\ raised.cls = "AttributeError")
    /\ Commits # {}
       => (NoUnhandled /\ n_error = 0 /\ committed = txn
           /\ pc \in {"run_post_execution_steps", "returned"})
    /\ RollbackCalls # {}
       => (n_error = 1 /\ txn = committed
           /\ \E k \in Entries : /\ Unhandled(log[k])
                                 /\ log[k].phase # "run_error_handling")

C3_Witness ==
    /\ pc = "raised"
    /\ "conn" \in attrs
    /\ e.phase = "run_post_execution_steps"
    /\ Len(processed) = 2
    /\ Cardinality(RollbackCalls) = 1

\* The tables after LoadToDatabase ran completely for each payload of done,
\* in order, starting from d.
RECURSIVE Replay(_, _)
Replay(d, done) ==
    IF done = <<>> THEN d
    ELSE AfterStatements(Replay(d, SubSeq(done, 1, Len(done) - 1)),
                         done[Len(done)], Len(LoadStatements))

\* C4: the committed tables are those of before the run until a commit
\* succeeds, and a commit succeeds only with the queue empty and every unit
\* of the list deleted after all three steps ran on it, the committed
\* tables then being what the complete loads of all units in order make of
\* the tables of before the run; a run that raised has committed nothing.
C4_NoPartialCommit ==
    /\ Commits = {} => committed = committed0
    /\ pc = "raised" => committed = committed0
    /\ Commits # {}
       => /\ payloads = <<>>
          /\ Ids(processed) = Ids(units)
          /\ \A k \in 1..Len(processed) : processed[k].ran = <<1, 2, 3>>
          /\ committed = Replay(committed0, processed)

C4_Witness ==
    /\ pc = "raised"
    /\ e.phase = "run_payload"
    /\ Len(processed) = 1
    /\ Len(payloads) = 1
    /\ Replay(committed0, processed) # committed0
    /\ committed = committed0
    /\ txn = committed0

\* The payload holds fetched or derived data.
HoldsData(p) == p.api_data # NoData \/ p.rows # NoRows

\* C7 as stated: at most one work unit is in memory at any time.
C7_Original == Len(payloads) <= 1

\* C7 amended: the payloads of all units are created by pre-execution and
\* stay queued until their turn, but only the one at the head of the queue
\* ever holds fetched or derived data: a unit is deleted from the queue
\* before anything is fetched for the next.
C7_OneUnitWithData ==
    /\ \A k \in 2..Len(payloads) : ~HoldsData(payloads[k])
    /\ pc \in PayloadPhases => Len(payloads) + Len(processed) = Len(units)
    /\ (pc = "run_all_payloads" /\ payloads # <<>>) => ~HoldsData(payloads[1])

C7_Witness ==
    /\ Len(units) = 2
    /\ Len(processed) = 1
    /\ HoldsData(processed[1])
    /\ Len(payloads) = 1
    /\ HoldsData(payloads[1])

\* ------------------------------------------------------------------------
\* Properties of the API functions (SpecApi)
\* ------------------------------------------------------------------------
\* C10: a call whose every response so far was a failure has raised
\* APIErrorException exactly when it has sent retries + 1 requests, and
\* never sends more.
C10_AttemptsBeforeFailure ==
    (api.fn # "none" /\ api.failed_attempts = api.requests)
    => /\ api.requests <= api.retries + 1
       /\ api.pos = "raised" <=> api.requests = api.retries + 1

C10_Witness ==
    /\ api.fn = "get_conversation_ids_last_updated_between_timestamps"
    /\ api.pos = "raised"
    /\ api.retries = 2
    /\ api.requests = 3
    /\ api.failed_attempts = 3

\* The identifiers a call of the search has collected.
Collected == {api.conversation_ids[k] : k \in 1..Len(api.conversation_ids)}

\* The result set of the window only shrank from one search response of
\* the call to the next.
OnlyShrank == \A k \in 2..Len(api.seen) : api.seen[k] \subseteq api.seen[k - 1]

RowsOf(d, t, c) ==
    IF t = "conversations" THEN {r \in d[t] : r.id = c}
    ELSE {r \in d[t] : r.conversation_id = c}

\* The rows the latest remote state of conversation c parses to.
RemoteRows(c) ==
    ParsedRows([conversation_id |-> c, end_timestamp |-> remote[c].updated_at,
                api_data |-> [id |-> c, updated_at |-> remote[c].updated_at,
                              shape |-> remote[c].shape]])

\* The tables d store the latest remote state of conversation c: nothing
\* of a conversation that does not exist, else exactly its rows in the
\* replaced tables and at least its parts in conversation_parts.
StoresLatest(d, c) ==
    IF remote[c] = NoConv THEN \A t \in Tables : RowsOf(d, t, c) = {}
    ELSE \A t \in Tables :
            IF t = "conversation_parts"
            THEN RemoteRows(c)[t] \subseteq RowsOf(d, t, c)
            ELSE RowsOf(d, t, c) = RemoteRows(c)[t]

\* conn.commit() returned in the run that has ended.
RunCommitted == pc = "returned" /\ runs[Len(runs)].committed

\* C12: after a run committed, every conversation whose latest remote
\* state is not what the committed tables store has a remote updated_at
\* strictly greater than the committed watermark.
C12_NoChangeMissed ==
    RunCommitted
    => \A c \in ConvIds :
         ~StoresLatest(committed, c)
         => remote[c].updated_at > Watermark(committed)

\* The runs so far in which GetPayloads resolved an end timestamp.
Resolved(rs) == {k \in 1..Len(rs) : rs[k].end # None}

LastRun == runs[Len(runs)]

\* C14 as stated: a run that resolved an end timestamp and committed
\* leaves the committed watermark equal to that end timestamp.
C14_Original ==
    (RunCommitted /\ LastRun.end # None) => Watermark(committed) = LastRun.end

\* C14 amended: such a run leaves the committed watermark no lower than
\* it was and no higher than the end timestamp; above the start of the
\* window when a unit was processed, and unchanged when none was; equal to
\* the end timestamp when a processed unit was fetched with an updated_at
\* at or past it, which is the case whenever no remote update was made
\* during the run.
C14_WatermarkUpToEnd ==
    (RunCommitted /\ LastRun.end # None)
    => /\ Watermark(committed) <= LastRun.end
       /\ Watermark(committed) >= Watermark(committed0)
       /\ LastRun.start = Watermark(committed0)
       /\ processed # <<>> => Watermark(committed) > LastRun.start
       /\ processed = <<>> => committed = committed0
       /\ (\E k \in 1..Len(processed) :
              processed[k].api_data.updated_at >= LastRun.end)
          => Watermark(committed) = LastRun.end
       /\ now = LastRun.updates => Watermark(committed) = LastRun.end

C14_Witness ==
    /\ RunCommitted
    /\ Len(runs) = 2
    /\ LastRun.start = 1
    /\ LastRun.end = 2
    /\ now = LastRun.updates
    /\ Len(processed) >= 1
    /\ Watermark(committed0) = 1
    /\ Watermark(committed) = 2

\* GetPayloads raised the early-stop signal in this run.
NoNewData ==
    \E k \in Entries : /\ log[k].phase = "run_pre_execution_steps"
                        /\ pre_execution_steps[log[k].step] = "GetPayloads"
                        /\ log[k].out = StopPipelineException

\* C15: while a run has no end timestamp, no enumeration or details call
\* is made, there is no unit, no pipeline step runs and nothing is written;
\* when the max-change-time query returned None, GetPayloads raises the
\* early-stop signal, post-execution is entered once with the commit as
\* the only step left, the tables and the watermark stay as they were,
\* and unless the commit itself fails error handling is not run and the
\* run returns committed.
C15_NoDataScenario ==
    /\ (runs # <<>> /\ LastRun.end = None /\ pc # "idle")
       => /\ api.fn \in {"none", "get_conversation_max_updated_timestamp"}
          /\ payloads = <<>>
          /\ EntriesOf("run_payload") = {}
          /\ txn = committed0
    /\ (/\ CurStep = "GetPayloads"
        /\ api.fn = "get_conversation_max_updated_timestamp"
        /\ api.pos = "returned"
        /\ api.max_updated_at = None)
       => ENABLED GetPayloads_end_timestamp
    /\ NoNewData
       => /\ LastRun.end = None
          /\ LastRun.start = Watermark(committed0)
          /\ api = NoCall
          /\ n_post = 1
          /\ committed = committed0
          /\ Watermark(committed) = LastRun.start
          /\ \A k \in EntriesOf("run_post_execution_steps") \cup
                       EntriesOf("run_error_handling") :
               log[k - 1].phase = "run_pre_execution_steps"
               \/ log[k - 1].out # "return"
          /\ n_error = 0 <=> pc \in {"run_post_execution_steps", "returned"}
          /\ n_error = 1 =>
               /\ log[Len(log) - Cardinality(EntriesOf("run_error_handling"))].phase
                    = "run_post_execution_steps"
               /\ ~LastRun.committed
          /\ pc = "returned" => LastRun.committed

C15_Witness ==
    /\ NoNewData
    /\ RunCommitted
    /\ n_error = 0
    /\ Len(log) = 3
    /\ Watermark(committed) = 1
    /\ LastRun.start = 1
    /\ txn = committed0

\* ------------------------------------------------------------------------
\* Properties of the load primitives (SpecDb)
\* ------------------------------------------------------------------------
Calls == 1..Len(loader.done)
MergeCalls == {k \in Calls : loader.done[k].fn = "merge_dataframe_into_table"}
LoadCalls == {k \in Calls : loader.done[k].fn = "load_dataframe_to_table"}
Moved(c) ==
    \E k \in 1..Len(c.statements) :
        c.statements[k] \in {"create temporary table", "copy", "merge"}

\* C16: a merge of a row-set with rows into a table that has zero or two
\* primary-key constraints raises MissingPrimaryKeyException, with no
\* temporary table created, no copy issued, no merge executed and the
\* table as it was.
C16_MissingPrimaryKeyRaised ==
    \A k \in MergeCalls :
        (k = 1 /\ loader.done[k].df # {} /\ MissingPrimaryKey(pk_count))
        => /\ loader.done[k].out = MissingPrimaryKeyException
           /\ ~Moved(loader.done[k])
           /\ loader.done[k].after = loader.done[k].before

\* The keys of a set of rows.
Keys(rows) == {PartKey(r) : r \in rows}

\* C17: a merge of a row-set with distinct primary keys into a table with
\* one primary key returns, and then every row of the row-set is in the
\* table as staged (the matching rows updated, the others inserted), every
\* row of the table whose key is not in the row-set is as it was, and the
\* table holds nothing else: one row per key, and no key is lost.
C17_UpsertMergeResult ==
    \A k \in MergeCalls :
        LET c == loader.done[k]
        IN (k = 1 /\ DistinctKeys(c.df) /\ ~MissingPrimaryKey(pk_count))
           => /\ c.out = "return"
              /\ c.df \subseteq c.after
              /\ \A r \in c.before :
                   PartKey(r) \notin Keys(c.df) => r \in c.after
              /\ c.after \subseteq (c.before \cup c.df)
              /\ Keys(c.after) = Keys(c.before) \cup Keys(c.df)
              /\ DistinctKeys(c.after)
              /\ c.df # {} <=> Moved(c)

C17_Witness ==
    /\ Len(loader.done) = 1
    /\ MergeCalls = {1}
    /\ loader.done[1].out = "return"
    /\ loader.done[1].before = {[conversation_id |-> 1, id |-> 1, v |-> "old"],
                                [conversation_id |-> 1, id |-> 2, v |-> "old"]}
    /\ loader.done[1].df = {[conversation_id |-> 1, id |-> 2, v |-> "new"],
                            [conversation_id |-> 1, id |-> 3, v |-> "new"]}
    /\ Cardinality(loader.done[1].after) = 3

\* C18: for every table, every number of primary-key constraints and
\* every row-set (with distinct keys or not), the same merge run a second
\* time leaves the rows the first left, and ends as the first did.
C18_MergeIdempotent ==
    (/\ Len(loader.done) = 2
     /\ MergeCalls = {1, 2}
     /\ loader.done[2].df = loader.done[1].df)
    => /\ loader.done[2].before = loader.done[1].after
       /\ loader.done[2].after = loader.done[1].after
       /\ loader.done[1].out = "return" => loader.done[2].out = "return"

C18_Witness ==
    /\ Len(loader.done) = 2
    /\ MergeCalls = {1, 2}
    /\ loader.done[2].df = loader.done[1].df
    /\ loader.done[1].out = "return"
    /\ loader.done[2].out = "return"
    /\ Cardinality(loader.done[1].df) = 2
    /\ Keys(loader.done[1].before) \cap Keys(loader.done[1].df) # {}
    /\ ~(Keys(loader.done[1].df) \subseteq Keys(loader.done[1].before))
    /\ loader.done[1].before \cap loader.done[1].df = {}
    /\ loader.done[2].after = loader.done[1].after

\* C20: load_dataframe_to_table with an empty row-set executes no
\* statement and leaves the table as it was; with rows it executes one
\* copy and no other statement, after which the table holds the rows it
\* held and the rows of the row-set.
C20_ReplaceLoadAppends ==
    \A k \in LoadCalls :
        LET c == loader.done[k]
        IN /\ c.out = "return"
           /\ c.df = {} => (c.statements = <<>> /\ c.after = c.before)
           /\ c.df # {} => (c.statements = <<"copy">>
                            /\ c.after = c.before \cup c.df)
           /\ c.before \subseteq c.after

C20_Witness ==
    /\ LoadCalls = {1}
    /\ loader.done[1].before = {[conversation_id |-> 1, v |-> "old"]}
    /\ loader.done[1].df = {[conversation_id |-> 1, v |-> "new"]}
    /\ Cardinality(loader.done[1].after) = 2

\* ------------------------------------------------------------------------
\* Properties of reprocessing (SpecConv)
\* ------------------------------------------------------------------------
\* The payloads of done that are the last of their conversation.
RECURSIVE KeepLast(_)
KeepLast(done) ==
    IF done = <<>> THEN <<>>
    ELSE IF \E k \in 2..Len(done) :
               done[k].conversation_id = Head(done).conversation_id
    THEN KeepLast(Tail(done))
    ELSE <<Head(done)>> \o KeepLast(Tail(done))

\* A conversation occurs more than once among the units processed.
Reprocessed == Len(KeepLast(processed)) < Len(processed)

\* C19 as stated: the tables a run commits are, in every table, those of
\* processing each conversation once with the data of its latest fetch.
C19_Original ==
    RunCommitted => committed = Replay(committed0, KeepLast(processed))

\* C19 amended: they are so in every table that is deleted from and
\* reloaded; conversation_parts, which is merged into, holds the parts of
\* the latest fetch as fetched, one row per key, and besides them only
\* rows it held before the run and parts that an earlier fetch of the
\* same run returned and the latest did not.
C19_ReprocessingKeepsLatest ==
    RunCommitted
    => LET once == Replay(committed0, KeepLast(processed))
           parts == "conversation_parts"
       IN /\ \A t \in Tables \ {parts} : committed[t] = once[t]
          /\ once[parts] \subseteq committed[parts]
          /\ DistinctKeys(committed[parts])
          /\ \A r \in committed[parts] \ once[parts] :
               \E k \in 1..Len(processed) :
                  /\ r \in processed[k].rows[parts]
                  /\ \E j \in (k + 1)..Len(processed) :
                       /\ processed[j].conversation_id = r.conversation_id
                       /\ PartKey(r) \notin Keys(processed[j].rows[parts])

C19_Witness ==
    /\ RunCommitted
    /\ Reprocessed
    /\ Len(processed) = 2
    /\ processed[1].api_data # processed[2].api_data
    /\ processed[2].api_data.shape.parts = {1}
    /\ Cardinality(committed["conversation_parts"]) = 2
    /\ Cardinality(committed["conversation_tags"]) = 1

\* ------------------------------------------------------------------------
\* Properties of the retry budget and of the pagination (SpecApi)
\* ------------------------------------------------------------------------
\* C21: a call performs at most retries backoff sleeps before it returns
\* or raises APIErrorException.
C21_SleepsWithinBudget ==
    api.fn # "none" => api.sleeps <= api.retries

\* The call is one of the paginated search.
IsSearch == api.fn = "get_conversation_ids_last_updated_between_timestamps"

\* The responses of the call that were "200 OK".
Succeeded == api.requests - api.failed_attempts

Max(a, b) == IF a >= b THEN a ELSE b

\* The pages p, p - 1, ..., 1 of a list, one after the other.
RECURSIVE PagesDownFrom(_, _)
PagesDownFrom(list, p) ==
    IF p < 1 THEN <<>> ELSE Page(list, p) \o PagesDownFrom(list, p - 1)

\* Every search response of the call was computed from one result set.
SameResultSet == \A k \in 1..Len(api.seen) : api.seen[k] = api.seen[1]

C24_Original ==
    (IsSearch /\ api.pos = "raised") => api.streak = api.retries + 1

\* C24 amended: the budget is one per call.  The failures of the page-count
\* request and of all page requests are counted together and a success
\* does not reset the count, so the call raises exactly when retries + 1
\* of its requests have failed, in a row or not.
C24_BudgetPerCall ==
    IsSearch
    => /\ api.failed_attempts <= api.retries + 1
       /\ api.pos = "raised" <=> api.failed_attempts = api.retries + 1
       /\ api.streak <= api.failed_attempts
       /\ Succeeded = Len(api.seen)
       /\ api.sleeps = api.failed_attempts

C24_Witness ==
    /\ IsSearch
    /\ api.pos = "raised"
    /\ api.retries = 2
    /\ api.failed_attempts = 3
    /\ api.streak = 1
    /\ api.fetched = <<2>>
    /\ api.requests = 5

\* The requests of a search stay within the bound: at most retries + 1
\* failed and 1 + max(total_pages, 1) successful.
WithinRequestBound ==
    IsSearch
    => /\ api.failed_attempts <= api.retries + 1
       /\ Succeeded <= 1 + Max(api.total_pages, 1)
       /\ api.pos = "returned" => Succeeded = 1 + Max(api.total_pages, 1)
       /\ api.pos = "raised" => Succeeded < 1 + Max(api.total_pages, 1)

\* C25: for every budget, every total_pages the remote reports and every
\* sequence of responses, a call of the paginated search ends, returning
\* or raising APIErrorException, after at most retries + 1 failed and
\* 1 + max(total_pages, 1) successful requests.
C25_SearchTerminates ==
    /\ []WithinRequestBound
    /\ IsSearch ~> (IsSearch /\ api.pos \in {"returned", "raised"})

C25_Witness ==
    /\ IsSearch
    /\ api.pos = "returned"
    /\ api.retries = 2
    /\ api.failed_attempts = 2
    /\ api.total_pages = 2
    /\ api.requests = 5

\* ------------------------------------------------------------------------
\* Properties of the two signals in every phase (Spec)
\* ------------------------------------------------------------------------
\* The entry is a step that raised one of the two signals.
RaisedSignal(en) == en.out \in {StopPipelineException, StopPayloadException}

\* C22 as stated: a signal raised by any step, in whichever phase, never
\* triggers error handling and is never raised to the caller of execute().
C22_Original ==
    \A k \in Entries :
        RaisedSignal(log[k])
        => (e # ExcOf(log[k]) /\ raised # ExcOf(log[k]))

\* C22 amended: StopPayloadException raised by a pipeline step, and
\* StopPipelineException raised by a pre-execution or pipeline step, are
\* never bound by the top-level handler and never raised to the caller.
\* Raised anywhere else a signal is an exception like any other: from a
\* pre-execution step (StopPayloadException) or a post-execution step
\* (either) it enters error handling once and is re-raised when the
\* error-handling steps return; from an error-handling step it is raised to
\* the caller at once.
C22_SignalsInScope ==
    \A k \in Entries :
        RaisedSignal(log[k])
        => IF ~Unhandled(log[k])
           THEN /\ e # ExcOf(log[k])
                /\ raised # ExcOf(log[k])
                /\ log[k].phase \in {"run_pre_execution_steps", "run_payload"}
                /\ NoUnhandled => (n_error = 0 /\ pc # "raised")
           ELSE IF log[k].phase = "run_error_handling"
           THEN /\ k = Len(log)
                /\ pc = "raised"
                /\ raised = ExcOf(log[k])
           ELSE /\ n_error = 1
                /\ e = ExcOf(log[k])
                /\ pc \in {"run_error_handling", "raised"}
                /\ (pc = "raised" /\ ErrorStepsRaised = {}) => raised = e

C22_Witness ==
    /\ pc = "raised"
    /\ n_error = 1
    /\ n_post = 1
    /\ raised.cls = StopPipelineException
    /\ raised.phase = "run_post_execution_steps"
    /\ \E k \in Entries : /\ log[k].out = StopPayloadException
                          /\ log[k].phase = "run_payload"
    /\ Cardinality(EntriesOf("run_error_handling")) >= 1

\* C27: while run_all_payloads runs, at most one payload of the queue has
\* had a pipeline step applied, and it is the head: between two units no
\* payload of the queue has, because run_payload's payload is deleted from
\* the head as soon as run_payload returns, after all its steps or after
\* the step that raised StopPayloadException, and every payload deleted is
\* one run_payload returned for.
C27_OnlyHeadTouched ==
    /\ Cardinality({k \in 1..Len(payloads) : payloads[k].ran # <<>>}) <= 1
    /\ \A k \in 1..Len(payloads) : payloads[k].ran # <<>> => k = 1
    /\ pc = "run_all_payloads"
         => \A k \in 1..Len(payloads) : payloads[k].ran = <<>>
    /\ pc = "payload_done"
         => /\ payloads # <<>>
            /\ Len(processed) + Len(payloads) = Len(units)
    /\ pc \in {"run_payload", "payload_done"}
         => Len(processed) = Len(units) - Len(payloads)
    /\ \A k \in 1..Len(processed) :
         LET ran == processed[k].ran
         IN \/ ran = [j \in 1..Len(pipeline_steps) |-> j]
            \/ \E j \in EntriesOf("run_payload") :
                 /\ log[j].unit = k
                 /\ log[j].step = Len(ran)
                 /\ log[j].out = StopPayloadException

C27_Witness ==
    /\ pc = "run_payload"
    /\ Len(units) = 2
    /\ Len(processed) = 1
    /\ processed[1].ran = <<1>>
    /\ Len(pipeline_steps) = 2
    /\ Len(payloads) = 1
    /\ payloads[1].ran = <<1>>
    /\ \E k \in Entries : /\ log[k].out = StopPayloadException
                          /\ log[k].unit = 1

\* ------------------------------------------------------------------------
\* Properties of what LoadToDatabase writes (SpecConv)
\* ------------------------------------------------------------------------
\* The payloads of the run that ParseApiData has built dataframes for.
Parsed ==
    {p \in {processed[k] : k \in 1..Len(processed)}
           \cup {payloads[k] : k \in 1..Len(payloads)} : p.rows # NoRows}

\* C26: every payload's conversations dataframe is one row with updated_at
\* = min(updated_at as fetched, the run's end timestamp); no conversations
\* row a run writes is past the end timestamp; and from the moment the end
\* timestamp is resolved the watermark of the transaction and of the
\* committed tables is at most the end timestamp, whatever was updated on
\* the remote after that.
C26_WatermarkWithinEnd ==
    /\ \A p \in Parsed :
         /\ p.end_timestamp = LastRun.end
         /\ p.rows["conversations"] =
              {[id |-> p.api_data.id,
                updated_at |-> Min(p.api_data.updated_at, p.end_timestamp)]}
    /\ (runs # <<>> /\ LastRun.end # None)
       => /\ \A r \in txn["conversations"] \ committed0["conversations"] :
               r.updated_at <= LastRun.end
          /\ Watermark(txn) <= LastRun.end
          /\ Watermark(committed) <= LastRun.end

C26_Witness ==
    /\ RunCommitted
    /\ LastRun.end = 1
    /\ Len(processed) = 2
    /\ \A k \in 1..2 : processed[k].api_data.updated_at = 2
    /\ Watermark(committed) = 1
    /\ Cardinality(committed["conversations"]) = 2

\* C28: a LoadToDatabase that returns leaves, in each of the nine tables
\* it deletes from and reloads, exactly the rows of the payload's dataframe
\* for the payload's conversation (none when the dataframe is empty),
\* whatever the table held for it, and the rows of every other
\* conversation as they were.
C28_DeleteThenReinsert ==
    [][(LoadToDatabase_execute /\ log'[Len(log')].out = "return")
       => LET p == Head(payloads)
              c == p.conversation_id
          IN \A k \in 1..Len(ReplaceTables) :
               LET t == ReplaceTables[k]
               IN /\ RowsOf(txn', t, c) = p.rows[t]
                  /\ \A o \in ConvIds \ {c} :
                       RowsOf(txn', t, o) = RowsOf(txn, t, o)
      ]_vars

C28_Witness ==
    /\ pc = "run_payload"
    /\ i > Len(pipeline_steps)
    /\ LET p == Head(payloads)
           c == p.conversation_id
           t == "conversation_ratings"
       IN /\ p.ran = <<1, 2, 3>>
          /\ RowsOf(committed0, t, c) # {}
          /\ p.rows[t] = {}
          /\ RowsOf(txn, t, c) = {}
          /\ RowsOf(txn, "conversations", c) # RowsOf(committed0, "conversations", c)
          /\ \E o \in ConvIds \ {c} : RowsOf(txn, t, o) # {}

\* ------------------------------------------------------------------------
\* Properties of the temporary table of the merge (SpecDb)
\* ------------------------------------------------------------------------
\* The temporary table of conversation_parts.
Staging == tmp_table_name("conversation_parts")

\* C29: in a transaction in which no statement failed, the temporary table
\* holds no row before, between and after the merges: a merge that returns
\* ended with the truncate and dropped nothing.  So a second merge reads
\* only its own row-set: into a table with one primary key it returns
\* whenever that row-set has distinct keys, whatever the first merge
\* staged, and leaves the rows of its row-set and the rows it found under
\* other keys.
C29_StagingEmptyBetweenMerges ==
    /\ ~loader.aborted => txn[Staging] = {}
    /\ \A k \in MergeCalls :
         LET c == loader.done[k]
         IN (c.out = "return" /\ c.df # {})
            => /\ c.statements[Len(c.statements)] = "truncate"
               /\ \A j \in 1..Len(c.statements) : c.statements[j] # "drop table"
    /\ (/\ Len(loader.done) = 2
        /\ MergeCalls = {1, 2}
        /\ loader.done[1].out = "return"
        /\ ~MissingPrimaryKey(pk_count)
        /\ DistinctKeys(loader.done[2].df))
       => LET c == loader.done[2]
          IN /\ c.out = "return"
             /\ c.before = loader.done[1].after
             /\ c.after = c.df \cup {r \in c.before : PartKey(r) \notin Keys(c.df)}

C29_Witness ==
    /\ Len(loader.done) = 2
    /\ MergeCalls = {1, 2}
    /\ loader.done[1].out = "return"
    /\ loader.done[2].out = "return"
    /\ loader.done[1].df = {[conversation_id |-> 1, id |-> 1, v |-> "old"],
                            [conversation_id |-> 1, id |-> 2, v |-> "old"]}
    /\ loader.done[2].df = {[conversation_id |-> 1, id |-> 1, v |-> "new"]}
    /\ loader.done[2].after = {[conversation_id |-> 1, id |-> 1, v |-> "new"],
                               [conversation_id |-> 1, id |-> 2, v |-> "old"]}
    /\ txn[Staging] = {}

\* ------------------------------------------------------------------------
\* Properties of an early stop between writes (SpecStop)
\* ------------------------------------------------------------------------
\* LoadToDatabase has run on the payload (and returned, the run having
\* gone on).
Loaded(p) ==
    \E k \in 1..Len(p.ran) : pipeline_steps[p.ran[k]] = "LoadToDatabase"

\* The tables after the loads of the payloads of done that were loaded.
Written(done) == Replay(committed0, SelectSeq(done, Loaded))

====
